---- MODULE Spec2Model ----
(***************************************************************************)
(* Model of merge_pdfs (src/pdf_merger.py): the loop over the rows of      *)
(* grid_data that clamps the requested page range, inserts the pages into  *)
(* the output document and, when finalize is set, rewrites the bookmarks   *)
(* of each file into total_toc.                                            *)
(***************************************************************************)
EXTENDS Integers, Sequences, FiniteSets, TLC

\* ---------------------------------------------------------------- bounds
MaxSources == 2      \* rows of grid_data
MaxPages == 2        \* pages of one input file
MaxEntries == 4      \* bookmarks read over one merge, all files together
MaxReq == 4          \* RangeSpec: files of 1..MaxReq pages, requests in -MaxReq..MaxReq+1
LiveEntries == 3     \* LiveSpec: bookmarks read over one merge
MaxView == 3         \* ViewerSpec: pages of the document shown
MaxTyped == 2        \* ViewerSpec: characters typed into the page field
MaxGridRows == 3     \* GridSpec: rows of the file grid
MaxGridPages == 2    \* GridSpec: total pages of a file in the grid

\* ------------------------------------------------------- fitz link kinds
LINK_GOTO == 1
LINK_URI == 2
LINK_NAMED == 4

\* page field of a bookmark that has no page target
NoPage == -1

\* rotations a grid row can carry (the model draws rows from two of the
\* four values of the rotation column)
Rotations == {0, 90}

\* bookmark titles; the j-th bookmark of a file is titled Titles[j]
Titles == <<"a", "b", "c", "d", "e", "f">>

FillerTitle == "<>"

VARIABLES
    pc,           \* position in merge_pdfs
    finalize,     \* the finalize argument
    idx,          \* number of rows of grid_data read so far
    row,          \* the row being processed, as the caller supplied it
    temp_file,    \* the open input file: page count, needs_pass
    first_pg,     \* loop variables of merge_pdfs
    last_pg,
    rotation,
    toc,          \* bookmarks of temp_file still to be visited
    link,         \* the bookmark visited last
    pg_range,
    last_lvl,
    current_pg,
    output_file,  \* pages of the output document
    total_toc,    \* bookmarks collected from all files
    doc_toc,      \* outline attached to the output document by set_toc
    entries_read, \* bookmarks read so far (bounds the input)
    printed,      \* rows whose file was reported on stdout as encrypted
    handles,      \* rows whose input document is open
    save_called,  \* on_save: output_pdf.save was called
    frame_open,   \* the PDFMerger frame is on screen
    viewer,       \* PDFViewer: current_pg, _total_pages, text of pg_input
    grid,         \* PagesGrid: the rows, top to bottom
    selected      \* PagesGrid: GetSelectedRows(), 0-based row numbers

vars == <<pc, finalize, idx, row, temp_file, first_pg, last_pg, rotation, toc,
          link, pg_range, last_lvl, current_pg, output_file, total_toc, doc_toc,
          entries_read, printed, handles, save_called, frame_open, viewer,
          grid, selected>>

\* the widgets outside a merge
gui == <<viewer, grid, selected>>

\* what a merge, on_save and on_preview work on
merge_vars == <<pc, finalize, idx, row, temp_file, first_pg, last_pg, rotation,
                toc, link, pg_range, last_lvl, current_pg, output_file,
                total_toc, doc_toc, entries_read, printed, handles,
                save_called, frame_open>>

\* ---------------------------------------------------------------- helpers
Min(a, b) == IF a <= b THEN a ELSE b
Max(a, b) == IF a >= b THEN a ELSE b
Abs(a) == IF a >= 0 THEN a ELSE -a

Reverse(s) == [i \in 1..Len(s) |-> s[Len(s) + 1 - i]]

\* zero-based list.index: position of the first occurrence of x in s
IndexOf(s, x) == (CHOOSE i \in 1..Len(s) : s[i] = x /\ \A j \in 1..(i - 1) : s[j] # x) - 1

InSeq(s, x) == \E i \in 1..Len(s) : s[i] = x

NoFile == [pages |-> 0, needs_pass |-> FALSE, open |-> FALSE]
NoRow == [first_pg |-> 0, last_pg |-> 0, rotation |-> 0]
NoLink == [lvl |-> 0, title |-> "", page |-> NoPage, kind |-> 0]
NoViewer == [current_pg |-> 0, total_pages |-> 0, pg_input |-> <<>>, page |-> 0]

\* ------------------------------------------------- lines 795-799: clamping
\* variant: the upper end is not clamped
ClampFirst_noUpper(first, pages) == Max(0, first)

ClampFirst(first, pages) == Min(Max(0, first), pages - 1)

ClampLast(last, pages) ==
    IF last # -1 THEN Min(Max(0, last), pages - 1) ELSE pages - 1

\* ------------------------------------- lines 803-806: Document.insert_pdf
\* pages from_page..to_page of file src are appended, in reverse order when
\* from_page > to_page, each with rotation rotate
\* variant: the pages are always copied in ascending order
InsertPdf_ascending(doc, src, from_page, to_page, rotate) ==
    doc \o [i \in 1..(Abs(to_page - from_page) + 1) |->
              [src |-> src,
               page |-> Min(from_page, to_page) + (i - 1),
               rotation |-> rotate]]

InsertPdf(doc, src, from_page, to_page, rotate) ==
    doc \o [i \in 1..(Abs(to_page - from_page) + 1) |->
              [src |-> src,
               page |-> IF from_page <= to_page THEN from_page + (i - 1)
                                                ELSE from_page - (i - 1),
               rotation |-> rotate]]

\* ------------------------------------------------------- lines 818-824
\* variant: the step is always +1
Increment_forward(first, last) == 1

Increment(first, last) == IF first > last THEN -1 ELSE 1

\* variant: a backward range stops one page early, range(first, last, -1)
PgRange_stopEarly(first, last) ==
    IF first > last THEN [i \in 1..(first - last) |-> first - (i - 1)]
    ELSE [i \in 1..(last - first + 1) |-> first + (i - 1)]

\* list(range(first_pg, last_pg + increment, increment))
PgRange(first, last) ==
    [i \in 1..((last - first) * Increment(first, last) + 1) |->
        first + (i - 1) * Increment(first, last)]

\* variant: the bookmarks are never reversed
TocOrder_forward(t, first, last) == t

\* toc[::-1] when the pages run backward
TocOrder(t, first, last) == IF first > last THEN Reverse(t) ELSE t

\* variant: last_lvl is not reset when a file's bookmarks are entered
StartLevel_carried == last_lvl

\* line 827
StartLevel == 1

\* ------------------------------------------------------- lines 835-848
\* line 835: link[2] - 1 in pg_range
InRange(lnk, range) == InSeq(range, lnk.page - 1)

\* variant: the pages of the earlier files are not added
PageNum_noOffset(lnk, range, cur) == IndexOf(range, lnk.page - 1) + 1

\* variant: the + 1 that makes the page 1-based is missing
PageNum_zeroBased(lnk, range, cur) == IndexOf(range, lnk.page - 1) + cur

\* line 839
PageNum(lnk, range, cur) == IndexOf(range, lnk.page - 1) + cur + 1

\* variant: last_lvl is not advanced inside the loop, a single filler results
Fillers_single(lnk, lvl, page_num) ==
    IF lnk.lvl > lvl + 1
    THEN <<[lvl |-> lvl + 1, title |-> FillerTitle, page |-> page_num, kind |-> lnk.kind]>>
    ELSE <<>>

\* the while loop of lines 842-844: one filler per missing level
Fillers(lnk, lvl, page_num) ==
    [i \in 1..Max(0, lnk.lvl - lvl - 1) |->
        [lvl |-> lvl + i, title |-> FillerTitle, page |-> page_num, kind |-> lnk.kind]]

\* ------------------------------------------------------------- the inputs
Files == [pages : 1..MaxPages, needs_pass : BOOLEAN, open : {TRUE}]

\* rows address pages of the file, last_pg may be the "to end" value -1
Rows(pages) == [first_pg : 0..(pages - 1), last_pg : -1..(pages - 1), rotation : Rotations]

\* the j-th bookmark of a file of the given page count, at most maxlvl deep:
\* a goto bookmark targets a page of the file (1-based), the others carry
\* no page
Links(pages, j, maxlvl) ==
    [lvl : 1..maxlvl, title : {Titles[j]}, page : 1..pages, kind : {LINK_GOTO}]
    \cup [lvl : 1..maxlvl, title : {Titles[j]}, page : {NoPage}, kind : {LINK_URI, LINK_NAMED}]

\* Document.get_toc walks the outline tree of the file: the first bookmark
\* is at level 1 and a bookmark is at most one level below the one before it
RECURSIVE Tocs(_, _)
Tocs(pages, n) ==
    IF n = 0 THEN {<<>>}
    ELSE UNION {{Append(t, l) :
                    l \in Links(pages, n, IF n = 1 THEN 1 ELSE t[n - 1].lvl + 1)} :
                t \in Tocs(pages, n - 1)}

\* rows of grid_data: a merge that reads no bookmarks has few states and gets
\* one row more
MaxRows(fin) == IF fin THEN MaxSources ELSE MaxSources + 1

\* ------------------------------------------------------------------ Init
Init ==
    /\ pc = "loop"
    /\ finalize \in BOOLEAN
    /\ idx = 0
    /\ row = NoRow
    /\ temp_file = NoFile
    /\ first_pg = 0
    /\ last_pg = 0
    /\ rotation = 0
    /\ toc = <<>>
    /\ link = NoLink
    /\ pg_range = <<>>
    /\ last_lvl = 0
    /\ current_pg = 0
    /\ output_file = <<>>
    /\ total_toc = <<>>
    /\ doc_toc = <<>>
    /\ entries_read = 0
    /\ printed = <<>>
    /\ handles = {}
    /\ save_called = FALSE
    /\ frame_open = TRUE
    /\ viewer = NoViewer
    /\ grid = <<>>
    /\ selected = <<>>

\* --------------------------------------------------------------- actions
\* lines 788-799: the next row is read, its file opens, the range is clamped
OpenSource ==
    /\ pc = "loop"
    /\ idx < MaxRows(finalize)
    /\ \E f \in Files : \E r \in Rows(f.pages) :
        /\ row' = r
        /\ temp_file' = f
        /\ first_pg' = ClampFirst(r.first_pg, f.pages)
        /\ last_pg' = ClampLast(r.last_pg, f.pages)
        /\ rotation' = r.rotation
    /\ idx' = idx + 1
    /\ handles' = handles \cup {idx + 1}
    /\ pc' = "opened"
    /\ UNCHANGED <<finalize, toc, link, pg_range, last_lvl, current_pg,
                   output_file, total_toc, doc_toc, entries_read,
                   printed, save_called,
                   frame_open, gui>>

\* line 791: get_pdf raises, the exception leaves merge_pdfs
OpenFails ==
    /\ pc = "loop"
    /\ idx < MaxRows(finalize)
    /\ idx' = idx + 1
    /\ pc' = "raised"
    /\ UNCHANGED <<finalize, row, temp_file, first_pg, last_pg, rotation, toc,
                   link, pg_range, last_lvl, current_pg, output_file, total_toc,
                   doc_toc, entries_read,
                   printed, handles, save_called,
                   frame_open, gui>>

\* variant: the needs_pass test of line 802 is missing
InsertPages_unchecked ==
    /\ pc = "opened"
    /\ output_file' = InsertPdf(output_file, idx, first_pg, last_pg, rotation)
    /\ pc' = "inserted"
    /\ UNCHANGED <<finalize, idx, row, temp_file, first_pg, last_pg, rotation,
                   toc, link, pg_range, last_lvl, current_pg, total_toc, doc_toc,
                   entries_read, printed, handles, save_called,
                   frame_open, gui>>

\* lines 802-806
InsertPages ==
    /\ pc = "opened"
    /\ ~temp_file.needs_pass
    /\ output_file' = InsertPdf(output_file, idx, first_pg, last_pg, rotation)
    /\ pc' = "inserted"
    /\ UNCHANGED <<finalize, idx, row, temp_file, first_pg, last_pg, rotation,
                   toc, link, pg_range, last_lvl, current_pg, total_toc, doc_toc,
                   entries_read,
                   printed, handles, save_called,
                   frame_open, gui>>

\* lines 803-806 raise (insert_pdf fails on the file): the with block closes
\* temp_file and the exception leaves merge_pdfs
InsertFails ==
    /\ pc = "opened"
    /\ ~temp_file.needs_pass
    /\ pc' = "raised"
    /\ temp_file' = NoFile
    /\ handles' = handles \ {idx}
    /\ UNCHANGED <<finalize, idx, row, first_pg, last_pg, rotation, toc, link,
                   pg_range, last_lvl, current_pg, output_file, total_toc,
                   doc_toc, entries_read, printed, save_called,
                   frame_open, gui>>

\* variant: no with block, temp_file is not closed when the row is left
LeaveSource_leaks ==
    /\ temp_file' = NoFile
    /\ row' = NoRow
    /\ first_pg' = 0
    /\ last_pg' = 0
    /\ rotation' = 0
    /\ toc' = <<>>
    /\ link' = NoLink
    /\ pg_range' = <<>>
    /\ handles' = handles

\* the with block of line 791 is left: temp_file is closed, the loop
\* variables of the row are dead
LeaveSource ==
    /\ temp_file' = NoFile
    /\ row' = NoRow
    /\ first_pg' = 0
    /\ last_pg' = 0
    /\ rotation' = 0
    /\ toc' = <<>>
    /\ link' = NoLink
    /\ pg_range' = <<>>
    /\ handles' = handles \ {idx}

\* variant: the print of lines 808-810 is missing
SkipEncrypted_silent ==
    /\ pc = "opened"
    /\ temp_file.needs_pass
    /\ pc' = "loop"
    /\ LeaveSource
    /\ UNCHANGED <<finalize, idx, last_lvl, current_pg, output_file, total_toc,
                   doc_toc, entries_read, printed, save_called,
                   frame_open, gui>>

\* lines 807-811: an encrypted file is reported on stdout and left
SkipEncrypted ==
    /\ pc = "opened"
    /\ temp_file.needs_pass
    /\ printed' = Append(printed, idx)
    /\ pc' = "loop"
    /\ LeaveSource
    /\ UNCHANGED <<finalize, idx, last_lvl, current_pg, output_file, total_toc,
                   doc_toc, entries_read, save_called,
                   frame_open, gui>>

\* lines 813-814
SkipToc ==
    /\ pc = "inserted"
    /\ ~finalize
    /\ pc' = "loop"
    /\ LeaveSource
    /\ UNCHANGED <<finalize, idx, last_lvl, current_pg, output_file, total_toc,
                   doc_toc, entries_read, printed, save_called,
                   frame_open, gui>>

\* lines 817-827
GetToc ==
    /\ pc = "inserted"
    /\ finalize
    /\ \E n \in 0..(MaxEntries - entries_read) : \E t \in Tocs(temp_file.pages, n) :
        /\ toc' = TocOrder(t, first_pg, last_pg)
        /\ entries_read' = entries_read + n
    /\ pg_range' = PgRange(first_pg, last_pg)
    /\ last_lvl' = StartLevel
    /\ pc' = "links"
    /\ UNCHANGED <<finalize, idx, row, temp_file, first_pg, last_pg, rotation,
                   link, current_pg, output_file, total_toc, doc_toc,
                   printed, handles, save_called,
                   frame_open, gui>>

\* lines 831-833
NamedLink ==
    /\ pc = "links"
    /\ toc # <<>>
    /\ Head(toc).kind = LINK_NAMED
    /\ link' = Head(toc)
    /\ toc' = Tail(toc)
    /\ UNCHANGED <<pc, finalize, idx, row, temp_file, first_pg, last_pg, rotation,
                   pg_range, last_lvl, current_pg, output_file, total_toc,
                   doc_toc, entries_read,
                   printed, handles, save_called,
                   frame_open, gui>>

\* variant: the continue of line 837 is missing, line 848 appends the link
GotoOutOfRange_appends ==
    /\ pc = "links"
    /\ toc # <<>>
    /\ Head(toc).kind = LINK_GOTO
    /\ ~InRange(Head(toc), pg_range)
    /\ link' = Head(toc)
    /\ total_toc' = Append(total_toc, Head(toc))
    /\ toc' = Tail(toc)
    /\ UNCHANGED <<pc, finalize, idx, row, temp_file, first_pg, last_pg, rotation,
                   pg_range, last_lvl, current_pg, output_file, doc_toc,
                   entries_read,
                   printed, handles, save_called,
                   frame_open, gui>>

\* lines 834-837
GotoOutOfRange ==
    /\ pc = "links"
    /\ toc # <<>>
    /\ Head(toc).kind = LINK_GOTO
    /\ ~InRange(Head(toc), pg_range)
    /\ link' = Head(toc)
    /\ toc' = Tail(toc)
    /\ UNCHANGED <<pc, finalize, idx, row, temp_file, first_pg, last_pg, rotation,
                   pg_range, last_lvl, current_pg, output_file, total_toc,
                   doc_toc, entries_read,
                   printed, handles, save_called,
                   frame_open, gui>>

\* lines 838-848: link[2] is rewritten in place, so the bookmark appended
\* and the loop variable are the same rewritten list
GotoInRange ==
    /\ pc = "links"
    /\ toc # <<>>
    /\ Head(toc).kind = LINK_GOTO
    /\ InRange(Head(toc), pg_range)
    /\ LET page_num == PageNum(Head(toc), pg_range, current_pg)
       IN /\ link' = [Head(toc) EXCEPT !.page = page_num]
          /\ total_toc' = (total_toc \o Fillers(Head(toc), last_lvl, page_num))
                             \o <<link'>>
    /\ last_lvl' = Head(toc).lvl
    /\ toc' = Tail(toc)
    /\ UNCHANGED <<pc, finalize, idx, row, temp_file, first_pg, last_pg, rotation,
                   pg_range, current_pg, output_file, doc_toc, entries_read,
                   printed, handles, save_called,
                   frame_open, gui>>

\* line 848 reached with a link that is neither named nor goto
OtherLink ==
    /\ pc = "links"
    /\ toc # <<>>
    /\ Head(toc).kind \notin {LINK_NAMED, LINK_GOTO}
    /\ link' = Head(toc)
    /\ total_toc' = Append(total_toc, Head(toc))
    /\ toc' = Tail(toc)
    /\ UNCHANGED <<pc, finalize, idx, row, temp_file, first_pg, last_pg, rotation,
                   pg_range, last_lvl, current_pg, output_file, doc_toc,
                   entries_read,
                   printed, handles, save_called,
                   frame_open, gui>>

\* variant: line 850 adds the page count of the file, len(temp_file)
EndSource_wholeFile ==
    /\ pc = "links"
    /\ toc = <<>>
    /\ current_pg' = current_pg + temp_file.pages
    /\ pc' = "loop"
    /\ LeaveSource
    /\ UNCHANGED <<finalize, idx, last_lvl, output_file, total_toc, doc_toc,
                   entries_read, printed, save_called,
                   frame_open, gui>>

\* variant: line 850 assigns, current_pg = len(pg_range)
EndSource_assigns ==
    /\ pc = "links"
    /\ toc = <<>>
    /\ current_pg' = Len(pg_range)
    /\ pc' = "loop"
    /\ LeaveSource
    /\ UNCHANGED <<finalize, idx, last_lvl, output_file, total_toc, doc_toc,
                   entries_read, printed, save_called,
                   frame_open, gui>>

\* line 850 and the end of the with block
EndSource ==
    /\ pc = "links"
    /\ toc = <<>>
    /\ current_pg' = current_pg + Len(pg_range)
    /\ pc' = "loop"
    /\ LeaveSource
    /\ UNCHANGED <<finalize, idx, last_lvl, output_file, total_toc, doc_toc,
                   entries_read, printed, save_called,
                   frame_open, gui>>

\* variant: lines 852-853 are missing, set_toc is never called
Return_noToc ==
    /\ pc = "loop"
    /\ pc' = "done"
    /\ UNCHANGED <<finalize, idx, row, temp_file, first_pg, last_pg, rotation,
                   toc, link, pg_range, last_lvl, current_pg, output_file,
                   total_toc, doc_toc, entries_read, printed, handles,
                   save_called,
                   frame_open, gui>>

\* lines 852-855: grid_data is exhausted
Return ==
    /\ pc = "loop"
    /\ doc_toc' = IF total_toc # <<>> THEN total_toc ELSE doc_toc
    /\ pc' = "done"
    /\ UNCHANGED <<finalize, idx, row, temp_file, first_pg, last_pg, rotation,
                   toc, link, pg_range, last_lvl, current_pg, output_file,
                   total_toc, entries_read,
                   printed, handles, save_called,
                   frame_open, gui>>

\* line 855: the document is all that merge_pdfs returns; the list of skipped
\* rows its caller receives is empty
ReturnedSkips == <<>>

\* ------------------------------------------------ on_save and on_preview
\* on_save calls merge_pdfs(grid_data, True) and on_preview calls
\* merge_pdfs(grid_values), both only with at least one row (lines 695-701
\* and 736-737), so finalize tells the caller.

\* variant: the length check of lines 705-706 is missing
SaveDocument_unchecked ==
    /\ pc = "done"
    /\ finalize
    /\ idx > 0
    /\ save_called' = TRUE
    /\ pc' \in {"saved", "save_error"}
    /\ UNCHANGED <<finalize, idx, row, temp_file, first_pg, last_pg, rotation,
                   toc, link, pg_range, last_lvl, current_pg, output_file,
                   total_toc, doc_toc, entries_read, printed, handles,
                   frame_open, gui>>

\* lines 705-713 with a document that has pages: save is called and either
\* returns (lines 720-726) or raises (lines 714-719)
SaveDocument ==
    /\ pc = "done"
    /\ finalize
    /\ idx > 0
    /\ Len(output_file) # 0
    /\ save_called' = TRUE
    /\ pc' \in {"saved", "save_error"}
    /\ UNCHANGED <<finalize, idx, row, temp_file, first_pg, last_pg, rotation,
                   toc, link, pg_range, last_lvl, current_pg, output_file,
                   total_toc, doc_toc, entries_read, printed, handles,
                   frame_open, gui>>

\* lines 705-706 and 714-719: the document has no pages, ValueError is
\* raised and the error dialog is shown
SaveEmpty ==
    /\ pc = "done"
    /\ finalize
    /\ idx > 0
    /\ Len(output_file) = 0
    /\ pc' = "save_error"
    /\ UNCHANGED <<finalize, idx, row, temp_file, first_pg, last_pg, rotation,
                   toc, link, pg_range, last_lvl, current_pg, output_file,
                   total_toc, doc_toc, entries_read, printed, handles,
                   save_called,
                   frame_open, gui>>

\* lines 704 and 714-719: merge_pdfs raised inside on_save
SaveMergeRaised ==
    /\ pc = "raised"
    /\ finalize
    /\ pc' = "save_error"
    /\ UNCHANGED <<finalize, idx, row, temp_file, first_pg, last_pg, rotation,
                   toc, link, pg_range, last_lvl, current_pg, output_file,
                   total_toc, doc_toc, entries_read, printed, handles,
                   save_called,
                   frame_open, gui>>

\* lines 750-751: the viewer is opened on whatever merge_pdfs returned
ShowPreview ==
    /\ pc = "done"
    /\ ~finalize
    /\ idx > 0
    /\ pc' = "preview"
    /\ UNCHANGED <<finalize, idx, row, temp_file, first_pg, last_pg, rotation,
                   toc, link, pg_range, last_lvl, current_pg, output_file,
                   total_toc, doc_toc, entries_read, printed, handles,
                   save_called,
                   frame_open, gui>>

\* lines 740-748: merge_pdfs raised inside on_preview
PreviewMergeRaised ==
    /\ pc = "raised"
    /\ ~finalize
    /\ pc' = "preview_error"
    /\ UNCHANGED <<finalize, idx, row, temp_file, first_pg, last_pg, rotation,
                   toc, link, pg_range, last_lvl, current_pg, output_file,
                   total_toc, doc_toc, entries_read, printed, handles,
                   save_called,
                   frame_open, gui>>

Next ==
    \/ OpenSource
    \/ OpenFails
    \/ InsertPages
    \/ InsertFails
    \/ SkipEncrypted
    \/ SkipToc
    \/ GetToc
    \/ NamedLink
    \/ GotoOutOfRange
    \/ GotoInRange
    \/ OtherLink
    \/ EndSource
    \/ Return
    \/ SaveDocument
    \/ SaveEmpty
    \/ SaveMergeRaised
    \/ ShowPreview
    \/ PreviewMergeRaised

Spec == Init /\ [][Next]_vars

\* ------------------------------------------------- the range of one source
\* One unencrypted file in finalize mode, with requested pages inside and
\* outside the file: lines 792-806 and 818-824 of merge_pdfs.
Requests == [first_pg : (0 - MaxReq)..(MaxReq + 1), last_pg : (0 - MaxReq)..(MaxReq + 1),
             rotation : Rotations]

RangeInit ==
    /\ pc = "request"
    /\ finalize = TRUE
    /\ idx = 1
    /\ row \in Requests
    /\ temp_file \in [pages : 1..MaxReq, needs_pass : {FALSE}, open : {TRUE}]
    /\ first_pg = row.first_pg
    /\ last_pg = row.last_pg
    /\ rotation = row.rotation
    /\ toc = <<>>
    /\ link = NoLink
    /\ pg_range = <<>>
    /\ last_lvl = 0
    /\ current_pg = 0
    /\ output_file = <<>>
    /\ total_toc = <<>>
    /\ doc_toc = <<>>
    /\ entries_read = 0
    /\ printed = <<>>
    /\ handles = {1}
    /\ save_called = FALSE
    /\ frame_open = TRUE
    /\ viewer = NoViewer
    /\ grid = <<>>
    /\ selected = <<>>

ResolveRange ==
    /\ pc = "request"
    /\ first_pg' = ClampFirst(first_pg, temp_file.pages)
    /\ last_pg' = ClampLast(last_pg, temp_file.pages)
    /\ output_file' = InsertPdf(output_file, idx, first_pg', last_pg', rotation)
    /\ pg_range' = PgRange(first_pg', last_pg')
    /\ pc' = "resolved"
    /\ UNCHANGED <<finalize, idx, row, temp_file, rotation, toc, link, last_lvl,
                   current_pg, total_toc, doc_toc, entries_read, printed,
                   handles, save_called,
                   frame_open, gui>>

RangeNext == ResolveRange

RangeSpec == RangeInit /\ [][RangeNext]_vars

\* --------------------------------------------- the bookmarks of one source
\* variant: the named branch of lines 831-833 is missing, a named bookmark
\* reaches line 848
LinkStep_namedKept(st, lnk, range, cur) ==
    IF lnk.kind = LINK_GOTO
    THEN IF ~InRange(lnk, range) THEN st
         ELSE LET page_num == PageNum(lnk, range, cur)
              IN [out |-> (st.out \o Fillers(lnk, st.lvl, page_num))
                             \o <<[lnk EXCEPT !.page = page_num]>>,
                  lvl |-> lnk.lvl]
    ELSE [out |-> Append(st.out, lnk), lvl |-> st.lvl]

\* variant: a bookmark that is neither named nor goto gets its page set to
\* the first page of the file in the output
LinkStep_otherRemapped(st, lnk, range, cur) ==
    IF lnk.kind = LINK_NAMED THEN st
    ELSE IF lnk.kind = LINK_GOTO
    THEN IF ~InRange(lnk, range) THEN st
         ELSE LET page_num == PageNum(lnk, range, cur)
              IN [out |-> (st.out \o Fillers(lnk, st.lvl, page_num))
                             \o <<[lnk EXCEPT !.page = page_num]>>,
                  lvl |-> lnk.lvl]
    ELSE [out |-> Append(st.out, [lnk EXCEPT !.page = cur + 1]), lvl |-> st.lvl]

\* lines 828-848 as a function: one pass of the loop body over bookmark lnk,
\* st.out being the bookmarks appended so far and st.lvl being last_lvl
LinkStep(st, lnk, range, cur) ==
    IF lnk.kind = LINK_NAMED THEN st
    ELSE IF lnk.kind = LINK_GOTO
    THEN IF ~InRange(lnk, range) THEN st
         ELSE LET page_num == PageNum(lnk, range, cur)
              IN [out |-> (st.out \o Fillers(lnk, st.lvl, page_num))
                             \o <<[lnk EXCEPT !.page = page_num]>>,
                  lvl |-> lnk.lvl]
    ELSE [out |-> Append(st.out, lnk), lvl |-> st.lvl]

\* the for loop of line 828 over the bookmarks t
RECURSIVE TocLoop(_, _, _, _)
TocLoop(st, t, range, cur) ==
    IF t = <<>> THEN st
    ELSE TocLoop(LinkStep(st, Head(t), range, cur), Tail(t), range, cur)

\* One unencrypted file in finalize mode after its pages were inserted, with
\* some pages of earlier files already in the output; toc holds the outline
\* in file order, as get_toc returns it (line 817).
TocInit ==
    /\ pc = "toc"
    /\ finalize = TRUE
    /\ idx = 1
    /\ temp_file \in [pages : 1..MaxPages, needs_pass : {FALSE}, open : {TRUE}]
    /\ row \in Rows(temp_file.pages)
    /\ first_pg = ClampFirst(row.first_pg, temp_file.pages)
    /\ last_pg = ClampLast(row.last_pg, temp_file.pages)
    /\ rotation = row.rotation
    /\ toc \in UNION {Tocs(temp_file.pages, n) : n \in 0..MaxEntries}
    /\ link = NoLink
    /\ pg_range = <<>>
    /\ last_lvl = 0
    /\ current_pg \in 0..MaxPages
    /\ output_file = <<>>
    /\ total_toc = <<>>
    /\ doc_toc = <<>>
    /\ entries_read = Len(toc)
    /\ printed = <<>>
    /\ handles = {1}
    /\ save_called = FALSE
    /\ frame_open = TRUE
    /\ viewer = NoViewer
    /\ grid = <<>>
    /\ selected = <<>>

\* lines 818-848 in one step
MergeToc ==
    /\ pc = "toc"
    /\ pg_range' = PgRange(first_pg, last_pg)
    /\ LET st == TocLoop([out |-> <<>>, lvl |-> StartLevel],
                          TocOrder(toc, first_pg, last_pg), pg_range', current_pg)
       IN /\ total_toc' = st.out
          /\ last_lvl' = st.lvl
    /\ pc' = "toc_done"
    /\ UNCHANGED <<finalize, idx, row, temp_file, first_pg, last_pg, rotation,
                   toc, link, current_pg, output_file, doc_toc, entries_read,
                   printed, handles, save_called,
                   frame_open, gui>>

TocNext == MergeToc

TocSpec == TocInit /\ [][TocNext]_vars

\* ------------------------------------------- the merge, loop by loop
\* merge_pdfs with the while loop of lines 842-844 taken one pass at a time,
\* for the question whether every loop ends. The bookmark in hand stays at
\* the head of toc until line 848 appends it; page_num is recomputed from
\* it, nothing it depends on changes inside the loop.
LiveInit ==
    /\ pc = "loop"
    /\ finalize \in BOOLEAN
    /\ idx = 0
    /\ row = NoRow
    /\ temp_file = NoFile
    /\ first_pg = 0
    /\ last_pg = 0
    /\ rotation = 0
    /\ toc = <<>>
    /\ link = NoLink
    /\ pg_range = <<>>
    /\ last_lvl = 0
    /\ current_pg = 0
    /\ output_file = <<>>
    /\ total_toc = <<>>
    /\ doc_toc = <<>>
    /\ entries_read = MaxEntries - LiveEntries
    /\ printed = <<>>
    /\ handles = {}
    /\ save_called = FALSE
    /\ frame_open = TRUE
    /\ viewer = NoViewer
    /\ grid = <<>>
    /\ selected = <<>>

\* lines 834-839: a goto bookmark with its target in pg_range reaches the
\* while statement
GotoEnter ==
    /\ pc = "links"
    /\ toc # <<>>
    /\ Head(toc).kind = LINK_GOTO
    /\ InRange(Head(toc), pg_range)
    /\ pc' = "while"
    /\ UNCHANGED <<finalize, idx, row, temp_file, first_pg, last_pg, rotation,
                   toc, link, pg_range, last_lvl, current_pg, output_file,
                   total_toc, doc_toc, entries_read, printed, handles,
                   save_called, frame_open, gui>>

\* variant: line 844 (last_lvl += 1) is missing
FillerStep_noIncrement ==
    /\ pc = "while"
    /\ Head(toc).lvl > last_lvl + 1
    /\ total_toc' = Append(total_toc,
                           [lvl |-> last_lvl + 1, title |-> FillerTitle,
                            page |-> PageNum(Head(toc), pg_range, current_pg),
                            kind |-> Head(toc).kind])
    /\ UNCHANGED <<pc, finalize, idx, row, temp_file, first_pg, last_pg, rotation,
                   toc, link, pg_range, last_lvl, current_pg, output_file, doc_toc,
                   entries_read, printed, handles, save_called, frame_open, gui>>

\* lines 842-844: one pass of the while loop
FillerStep ==
    /\ pc = "while"
    /\ Head(toc).lvl > last_lvl + 1
    /\ total_toc' = Append(total_toc,
                           [lvl |-> last_lvl + 1, title |-> FillerTitle,
                            page |-> PageNum(Head(toc), pg_range, current_pg),
                            kind |-> Head(toc).kind])
    /\ last_lvl' = last_lvl + 1
    /\ UNCHANGED <<pc, finalize, idx, row, temp_file, first_pg, last_pg, rotation,
                   toc, link, pg_range, current_pg, output_file, doc_toc,
                   entries_read, printed, handles, save_called, frame_open, gui>>

\* the while condition is false: lines 846-848
FillerExit ==
    /\ pc = "while"
    /\ ~(Head(toc).lvl > last_lvl + 1)
    /\ last_lvl' = Head(toc).lvl
    /\ link' = [Head(toc) EXCEPT !.page = PageNum(Head(toc), pg_range, current_pg)]
    /\ total_toc' = Append(total_toc, link')
    /\ toc' = Tail(toc)
    /\ pc' = "links"
    /\ UNCHANGED <<finalize, idx, row, temp_file, first_pg, last_pg, rotation,
                   pg_range, current_pg, output_file, doc_toc, entries_read,
                   printed, handles, save_called, frame_open, gui>>

LiveNext ==
    \/ OpenSource
    \/ OpenFails
    \/ InsertPages
    \/ InsertFails
    \/ SkipEncrypted
    \/ SkipToc
    \/ GetToc
    \/ NamedLink
    \/ GotoOutOfRange
    \/ GotoEnter
    \/ FillerStep
    \/ FillerExit
    \/ OtherLink
    \/ EndSource
    \/ Return
    \/ SaveDocument
    \/ SaveEmpty
    \/ SaveMergeRaised
    \/ ShowPreview
    \/ PreviewMergeRaised

\* the interpreter always runs the next statement of a call in progress
LiveSpec == LiveInit /\ [][LiveNext]_vars /\ WF_vars(LiveNext)


\* ------------------------------------------------------------ PDFViewer
\* The page navigation of PDFViewer. viewer.pg_input is the text of the page
\* field as a sequence of characters, viewer.page the argument of the last
\* call of _go_to_page. A wheel event that scrolls the panel instead of
\* changing the page (lines 1498-1500) changes nothing of this state.
DigitChars == <<"0", "1", "2", "3", "4", "5", "6", "7", "8", "9">>

\* str(n)
RECURSIVE Str(_)
Str(n) ==
    IF n < 0 THEN <<"-">> \o Str(0 - n)
    ELSE IF n < 10 THEN <<DigitChars[n + 1]>>
    ELSE Append(Str(n \div 10), DigitChars[(n % 10) + 1])

IsDigit(c) == \E d \in DOMAIN DigitChars : DigitChars[d] = c
DigitValue(c) == (CHOOSE d \in DOMAIN DigitChars : DigitChars[d] = c) - 1

\* str.strip as int() applies it
RECURSIVE Strip(_)
Strip(t) ==
    IF t = <<>> THEN t
    ELSE IF Head(t) = " " THEN Strip(Tail(t))
    ELSE IF t[Len(t)] = " " THEN Strip(SubSeq(t, 1, Len(t) - 1))
    ELSE t

IsDigits(t) == t # <<>> /\ \A i \in DOMAIN t : IsDigit(t[i])

RECURSIVE DigitsValue(_)
DigitsValue(t) ==
    IF t = <<>> THEN 0
    ELSE DigitsValue(SubSeq(t, 1, Len(t) - 1)) * 10 + DigitValue(t[Len(t)])

\* int(text) raises ValueError unless the stripped text is an optional sign
\* followed by digits
IsInt(t) ==
    LET u == Strip(t)
    IN IsDigits(u) \/ (u # <<>> /\ Head(u) = "-" /\ IsDigits(Tail(u)))

\* int(text)
IntOf(t) ==
    LET u == Strip(t)
    IN IF Head(u) = "-" THEN 0 - DigitsValue(Tail(u)) ELSE DigitsValue(u)

\* what the user can leave in the page field
TypedChars == {"0", "1", "2", "3", "4", "-", "x", " "}

RECURSIVE TextsOfLen(_)
TextsOfLen(n) ==
    IF n = 0 THEN {<<>>}
    ELSE {Append(t, c) : t \in TextsOfLen(n - 1), c \in TypedChars}

Texts == UNION {TextsOfLen(n) : n \in 0..MaxTyped}

\* variant: a page outside the document is clamped to the nearest page
NewPage_clamped(page, total) ==
    IF page > total THEN total ELSE IF page < 1 THEN 1 ELSE page

\* lines 1407-1412
NewPage(page, total) ==
    IF page > total THEN 1 ELSE IF page < 1 THEN total ELSE page

\* _go_to_page (lines 1392-1415) with render_page (line 1365)
GoneTo(v, page) ==
    [current_pg |-> NewPage(page, v.total_pages),
     total_pages |-> v.total_pages,
     pg_input |-> Str(NewPage(page, v.total_pages)),
     page |-> page]

\* PDFViewer.__init__: lines 1104, 1108 and 1137
ViewerInit ==
    /\ pc = "viewer"
    /\ finalize = FALSE
    /\ idx = 0
    /\ row = NoRow
    /\ temp_file = NoFile
    /\ first_pg = 0
    /\ last_pg = 0
    /\ rotation = 0
    /\ toc = <<>>
    /\ link = NoLink
    /\ pg_range = <<>>
    /\ last_lvl = 0
    /\ current_pg = 0
    /\ output_file = <<>>
    /\ total_toc = <<>>
    /\ doc_toc = <<>>
    /\ entries_read = 0
    /\ printed = <<>>
    /\ handles = {}
    /\ save_called = FALSE
    /\ frame_open = TRUE
    /\ viewer \in [current_pg : {1}, total_pages : 1..MaxView, pg_input : {<<"1">>},
                    page : {1}]
    /\ grid = <<>>
    /\ selected = <<>>

\* lines 1371-1382: Enter or loss of focus with text in the page field
GoToPage ==
    /\ pc = "viewer"
    /\ \E text \in Texts :
        LET page == IF IsInt(text) THEN IntOf(text) ELSE viewer.current_pg
            shown == IF IsInt(text) THEN text ELSE Str(viewer.current_pg)
        IN viewer' = IF page # viewer.current_pg THEN GoneTo(viewer, page)
                     ELSE [viewer EXCEPT !.pg_input = shown]
    /\ UNCHANGED <<merge_vars, grid, selected>>

\* lines 1384-1386
OnBack ==
    /\ pc = "viewer"
    /\ viewer' = GoneTo(viewer, viewer.current_pg - 1)
    /\ UNCHANGED <<merge_vars, grid, selected>>

\* lines 1388-1390
OnNext ==
    /\ pc = "viewer"
    /\ viewer' = GoneTo(viewer, viewer.current_pg + 1)
    /\ UNCHANGED <<merge_vars, grid, selected>>

\* lines 1492-1497: a wheel turn that changes the page, up or down
OnScroll ==
    /\ pc = "viewer"
    /\ \E rotation_up \in BOOLEAN :
        viewer' = GoneTo(viewer, IF rotation_up THEN viewer.current_pg - 1
                                              ELSE viewer.current_pg + 1)
    /\ UNCHANGED <<merge_vars, grid, selected>>

ViewerNext ==
    \/ GoToPage
    \/ OnBack
    \/ OnNext
    \/ OnScroll

ViewerSpec == ViewerInit /\ [][ViewerNext]_vars

\* ------------------------------------------------- PDFMerger._move
\* The file grid and move_up / move_down. A row of grid holds the cells of
\* the five columns (pages 1-based as the cells show them); a row made by
\* InsertRows and not yet filled is BlankRow. Row numbers are 0-based as in
\* the code, grid[i + 1] is row i.
GridFiles == <<"f1", "f2", "f3", "f4">>

\* line 416: the rotations a cell of the grid can hold
GridRotations == <<90, 180, -90, 0>>

BlankRow == [file |-> "", first_pg |-> 0, last_pg |-> 0, rotation |-> 0,
             total_pages |-> 0]

ValidRow(g, i) == i >= 0 /\ i < Len(g)

\* wxGrid.InsertRows: the string table appends when pos is not a row (pos is
\* unsigned there, so a negative pos is past the end)
InsertRows(g, pos) ==
    IF ValidRow(g, pos)
    THEN (SubSeq(g, 1, pos) \o <<BlankRow>>) \o SubSeq(g, pos + 1, Len(g))
    ELSE Append(g, BlankRow)

\* wxGrid.DeleteRows on an existing row
DeleteRows(g, pos) == SubSeq(g, 1, pos) \o SubSeq(g, pos + 2, Len(g))

\* lines 459-464: one entry of get_values
GetValues(r) ==
    [file |-> r.file, first_pg |-> r.first_pg - 1, last_pg |-> r.last_pg - 1,
     rotation |-> r.rotation]

\* lines 413-433: the cells create_row writes, called as in lines 650-653;
\* the rotations of the grid are all keys of line 416
CreateRow(data, total_pages) ==
    [file |-> data.file,
     first_pg |-> IF data.first_pg + 1 \in 1..total_pages THEN data.first_pg + 1 ELSE 1,
     last_pg |-> data.last_pg + 1,
     rotation |-> data.rotation,
     total_pages |-> total_pages]

\* sorted(rows, reverse=True)
RECURSIVE SortedDown(_)
SortedDown(rows) ==
    IF rows = <<>> THEN <<>>
    ELSE LET top == CHOOSE i \in DOMAIN rows : \A j \in DOMAIN rows : rows[j] <= rows[i]
         IN <<rows[top]>> \o SortedDown(SubSeq(rows, 1, top - 1)
                                            \o SubSeq(rows, top + 1, Len(rows)))

\* lines 627-639: the lambdas of the two directions
NewRow(x, move_down) == IF move_down THEN x + 2 ELSE x - 1
OldRow(x, move_down) == IF move_down THEN x ELSE x + 1
SelectRow(x, move_down) == IF move_down THEN x + 1 ELSE x - 1
FailedRow(x, move_down) == IF move_down THEN x + 1 ELSE x

\* lines 643-655: the loop body for one selected row. st.grid is the grid,
\* st.failed the list failed_moves, st.sel the selection, st.raised whether
\* an exception has ended the handler; data is grid_data of line 642.
\* Reading the total pages of a row that does not exist or is blank makes
\* int() raise. Writing the cells of row -1 trips a wx assertion, which
\* raises when asserts is set and is ignored otherwise; SelectRow on a row
\* that does not exist selects nothing.
MoveOne(st, r, move_down, data, asserts) ==
    LET nr == NewRow(r, move_down)
        old == OldRow(r, move_down)
        sr == SelectRow(r, move_down)
        g1 == InsertRows(st.grid, nr)
    IN IF st.raised THEN st
       ELSE IF nr \in st.failed
       THEN [st EXCEPT !.failed = @ \cup {FailedRow(r, move_down)}]
       ELSE IF ~ValidRow(g1, old) \/ g1[old + 1] = BlankRow
       THEN [st EXCEPT !.grid = g1, !.raised = TRUE]
       ELSE IF ~ValidRow(g1, nr) /\ asserts
       THEN [st EXCEPT !.grid = g1, !.raised = TRUE]
       ELSE LET g2 == IF ValidRow(g1, nr)
                      THEN [g1 EXCEPT ![nr + 1] =
                                CreateRow(data[r + 1], g1[old + 1].total_pages)]
                      ELSE g1
                g3 == DeleteRows(g2, old)
            IN [st EXCEPT !.grid = g3,
                          !.sel = IF ValidRow(g3, sr) /\ ~InSeq(st.sel, sr)
                                  THEN Append(st.sel, sr) ELSE st.sel]

\* the for loop of line 643
RECURSIVE MoveRows(_, _, _, _, _)
MoveRows(st, rows, move_down, data, asserts) ==
    IF rows = <<>> THEN st
    ELSE MoveRows(MoveOne(st, Head(rows), move_down, data, asserts), Tail(rows),
                  move_down, data, asserts)

\* _move (lines 619-655) for a non-empty selection: the grid and the
\* selection it leaves. get_values raises on a blank row (int of an empty
\* cell), after the selection was cleared.
MoveResult(g, rows, move_down, asserts) ==
    LET ordered == IF move_down THEN SortedDown(rows) ELSE rows
        stuck == IF move_down THEN ordered[1] = Len(g) - 1 ELSE ordered[1] = 0
        failed == IF ~stuck THEN {}
                  ELSE IF move_down THEN {ordered[1] + 1} ELSE {ordered[1]}
        todo == IF stuck THEN Tail(ordered) ELSE ordered
    IN IF \E i \in DOMAIN g : g[i] = BlankRow
       THEN [grid |-> g, failed |-> failed, sel |-> <<>>, raised |-> TRUE]
       ELSE MoveRows([grid |-> g, failed |-> failed, sel |-> <<>>, raised |-> FALSE],
                     todo, move_down, [i \in DOMAIN g |-> GetValues(g[i])], asserts)

\* the rows a file dialog and the cell editors can leave in the grid; the
\* rotation cell is only carried along by a move, so the rows differ in it
\* by file and not freely
GridRows(i) ==
    {r \in [file : {GridFiles[i]}, first_pg : 1..MaxGridPages, last_pg : 1..MaxGridPages,
            rotation : {GridRotations[(i % 4) + 1]}, total_pages : 1..MaxGridPages] :
        r.first_pg <= r.total_pages /\ r.last_pg <= r.total_pages}

RECURSIVE Grids(_)
Grids(n) ==
    IF n = 0 THEN {<<>>}
    ELSE {Append(g, r) : g \in Grids(n - 1), r \in GridRows(n)}

\* what GetSelectedRows can report for a grid of n rows: distinct rows in
\* the order they were selected
Selections(n) ==
    {sq \in UNION {[1..k -> 0..(n - 1)] : k \in 1..n} :
        \A i \in DOMAIN sq : \A j \in DOMAIN sq : i # j => sq[i] # sq[j]}

GridInit ==
    /\ pc = "grid"
    /\ finalize = FALSE
    /\ idx = 0
    /\ row = NoRow
    /\ temp_file = NoFile
    /\ first_pg = 0
    /\ last_pg = 0
    /\ rotation = 0
    /\ toc = <<>>
    /\ link = NoLink
    /\ pg_range = <<>>
    /\ last_lvl = 0
    /\ current_pg = 0
    /\ output_file = <<>>
    /\ total_toc = <<>>
    /\ doc_toc = <<>>
    /\ entries_read = 0
    /\ printed = <<>>
    /\ handles = {}
    /\ save_called = FALSE
    /\ frame_open = TRUE
    /\ viewer = NoViewer
    /\ grid \in UNION {Grids(n) : n \in 1..MaxGridRows}
    /\ selected = <<>>

\* the user selects rows of the grid
SelectRows ==
    /\ pc = "grid"
    /\ grid # <<>>
    /\ selected' \in Selections(Len(grid))
    /\ UNCHANGED <<merge_vars, viewer, grid>>

\* lines 657-660
MoveUp ==
    /\ pc = "grid"
    /\ selected # <<>>
    /\ \E asserts \in BOOLEAN :
        LET st == MoveResult(grid, selected, FALSE, asserts)
        IN grid' = st.grid /\ selected' = st.sel
    /\ UNCHANGED <<merge_vars, viewer>>

\* lines 662-665
MoveDown ==
    /\ pc = "grid"
    /\ selected # <<>>
    /\ \E asserts \in BOOLEAN :
        LET st == MoveResult(grid, selected, TRUE, asserts)
        IN grid' = st.grid /\ selected' = st.sel
    /\ UNCHANGED <<merge_vars, viewer>>

GridNext ==
    \/ SelectRows
    \/ MoveUp
    \/ MoveDown

GridSpec == GridInit /\ [][GridNext]_vars

\* ================================================================ claims
\* what the claims speak of, written from the row and the file alone
Clamp(x, lo, hi) == IF x < lo THEN lo ELSE IF x > hi THEN hi ELSE x

LastIndex == temp_file.pages - 1
WantedFirst == Clamp(row.first_pg, 0, LastIndex)
WantedLast == IF row.last_pg = -1 THEN LastIndex ELSE Clamp(row.last_pg, 0, LastIndex)

\* the index sequence first, first +- 1, ..., last
Resolved(first, last) ==
    [i \in 1..(Abs(last - first) + 1) |-> IF first <= last THEN first + (i - 1)
                                                           ELSE first - (i - 1)]

\* the pages the current source contributes
SourcePages ==
    [i \in 1..(Abs(WantedLast - WantedFirst) + 1) |->
        [src |-> idx, page |-> Resolved(WantedFirst, WantedLast)[i], rotation |-> row.rotation]]

\* output pages that came from the sources before the current one
EarlierPages == Cardinality({p \in DOMAIN output_file : output_file[p].src < idx})

Levels(t) == [i \in DOMAIN t |-> t[i].lvl]
TitlesOf(t) == [i \in DOMAIN t |-> t[i].title]

\* the next bookmark is a goto bookmark and the branch that handles it
AtGoto == pc = "links" /\ toc # <<>> /\ Head(toc).kind = LINK_GOTO
TargetInside ==
    /\ Head(toc).page - 1 >= Min(first_pg, last_pg)
    /\ Head(toc).page - 1 <= Max(first_pg, last_pg)

\* C1: the output pages are the concatenation, in row order, of the resolved
\* pages of every source that is not skipped, each page carrying the
\* rotation of its own row: inserting a source appends exactly its resolved
\* pages and leaves the earlier pages alone (unless insert_pdf raises, which
\* ends the merge without a document), no other step changes the pages; one
\* source taken whole with rotation 0 comes out page by page.
C1_Concatenation ==
    [][/\ IF pc = "opened" /\ ~temp_file.needs_pass /\ pc' # "raised"
          THEN output_file' = output_file \o SourcePages
          ELSE output_file' = output_file
       /\ (pc' = "inserted" /\ idx' = 1 /\ row'.first_pg = 0
             /\ row'.last_pg = temp_file'.pages - 1 /\ row'.rotation = 0)
            => output_file' = [i \in 1..temp_file'.pages |->
                                  [src |-> 1, page |-> i - 1, rotation |-> 0]]]_vars

C1_Witness ==
    /\ pc = "inserted"
    /\ idx = 2
    /\ first_pg > last_pg
    /\ Len(output_file) = 4
    /\ output_file[1].src = 1
    /\ output_file[3] = [src |-> 2, page |-> 1, rotation |-> 90]
    /\ output_file[1].rotation = 0

\* C2: with at least one page in the file, the first page used is the
\* requested one clamped into 0..pages-1, the last page used is pages-1 for
\* the request -1 and the clamped request otherwise; every index inserted or
\* listed in pg_range is a page of the file and the range is not empty.
C2_Clamped ==
    pc = "resolved" =>
        /\ first_pg = WantedFirst
        /\ last_pg = WantedLast
        /\ Len(pg_range) >= 1
        /\ \A i \in DOMAIN pg_range : pg_range[i] \in 0..LastIndex
        /\ Len(output_file) >= 1
        /\ \A p \in DOMAIN output_file : output_file[p].page \in 0..LastIndex

C2_Witness ==
    /\ pc = "resolved"
    /\ temp_file.pages = 3
    /\ row.first_pg > 3
    /\ row.last_pg < -1
    /\ pg_range = <<2, 1, 0>>

\* C3: the resolved index sequence has |last-first|+1 entries, starts at
\* first, ends at last, and steps by +1 when first <= last, by -1 otherwise.
C3_RangeShape ==
    pc = "resolved" =>
        /\ Len(pg_range) = Abs(last_pg - first_pg) + 1
        /\ pg_range[1] = first_pg
        /\ pg_range[Len(pg_range)] = last_pg
        /\ \A i \in 1..(Len(pg_range) - 1) :
              pg_range[i + 1] - pg_range[i] = (IF first_pg <= last_pg THEN 1 ELSE -1)

C3_Witness ==
    /\ pc = "resolved"
    /\ first_pg = last_pg + 2
    /\ Len(pg_range) = 3
    /\ row.last_pg = last_pg

\* C4: for bounds a < b, selecting (first=b, last=a) gives the reverse of
\* what selecting (first=a, last=b) gives, as index sequence and as pages.
C4_Reversal ==
    (pc = "resolved" /\ first_pg > last_pg) =>
        /\ pg_range = Reverse(PgRange(last_pg, first_pg))
        /\ output_file = Reverse(InsertPdf(<<>>, idx, last_pg, first_pg, rotation))

C4_Witness ==
    /\ pc = "resolved"
    /\ first_pg = 3
    /\ last_pg = 0
    /\ Len(output_file) = 4
    /\ output_file[1].page = 3
    /\ output_file[4].page = 0

\* C5: in finalize mode a goto bookmark whose zero-based target is among the
\* resolved indices is appended with its level, title and kind, and with the
\* page (position of the target in the resolved sequence) + (output pages of
\* the earlier sources) + 1.
C5_GotoTarget ==
    [][(AtGoto /\ TargetInside) =>
          /\ Len(total_toc') > Len(total_toc)
          /\ total_toc'[Len(total_toc')] =
                [lvl |-> Head(toc).lvl, title |-> Head(toc).title, kind |-> LINK_GOTO,
                 page |-> Abs(Head(toc).page - 1 - first_pg) + EarlierPages + 1]]_vars

C5_Witness ==
    /\ pc = "links"
    /\ idx = 2
    /\ current_pg = 2
    /\ first_pg > last_pg
    /\ link.kind = LINK_GOTO
    /\ link.page = 4
    /\ total_toc # <<>>
    /\ total_toc[Len(total_toc)] = link
    /\ output_file[4] = [src |-> 2, page |-> 0, rotation |-> 90]

C7_LevelStep ==
    \A i \in 2..Len(total_toc) : total_toc[i].lvl <= total_toc[i - 1].lvl + 1

\* C8: a retained goto bookmark more than one level below last_lvl is
\* preceded by exactly (level - last_lvl - 1) fillers, at the levels
\* last_lvl+1, ..., level-1 in this order, each titled "<>" and each with the
\* output page of the bookmark.
C8_Fillers ==
    [][(AtGoto /\ TargetInside /\ Head(toc).lvl > last_lvl + 1) =>
          LET gap == Head(toc).lvl - last_lvl - 1
              n == Len(total_toc)
          IN /\ Len(total_toc') = n + gap + 1
             /\ \A i \in 1..n : total_toc'[i] = total_toc[i]
             /\ total_toc'[n + gap + 1].title = Head(toc).title
             /\ total_toc'[n + gap + 1].lvl = Head(toc).lvl
             /\ \A k \in 1..gap :
                   /\ total_toc'[n + k].lvl = last_lvl + k
                   /\ total_toc'[n + k].title = "<>"
                   /\ total_toc'[n + k].page = total_toc'[n + gap + 1].page]_vars

C8_Witness ==
    /\ pc = "links"
    /\ idx = 1
    /\ toc = <<>>
    /\ Levels(total_toc) = <<1, 2, 3, 4>>
    /\ TitlesOf(total_toc) = <<"a", "<>", "<>", "d">>
    /\ total_toc[1].page = total_toc[4].page
    /\ total_toc[2].page = total_toc[4].page
    /\ total_toc[3].page = total_toc[4].page

\* C9 as stated: when the bookmarks of a source are entered and earlier
\* sources have appended bookmarks (goto bookmarks and their fillers), the
\* level repair starts from the level of the last bookmark appended.
C9_LevelCarried ==
    (pc = "links" /\ link = NoLink /\ total_toc # <<>>
       /\ \A i \in DOMAIN total_toc : total_toc[i].kind = LINK_GOTO) =>
        last_lvl = total_toc[Len(total_toc)].lvl

\* C9 amended: last_lvl is set to 1 whenever the bookmarks of a source are
\* entered, whatever the earlier sources appended: until the source has a
\* goto bookmark retained (one that points past the pages of the earlier
\* sources), the level repair starts from level 1.
C9_LevelReset ==
    (pc = "links"
       /\ \A i \in DOMAIN total_toc :
             total_toc[i].kind = LINK_GOTO => total_toc[i].page <= current_pg)
      => last_lvl = 1

C9_Witness ==
    /\ pc = "links"
    /\ link = NoLink
    /\ idx = 2
    /\ total_toc # <<>>
    /\ total_toc[Len(total_toc)].lvl = 3
    /\ total_toc[Len(total_toc)].kind = LINK_GOTO
    /\ last_lvl = 1

\* C10: the collected outline is a valid hierarchy: its first bookmark is at
\* level 1 and every bookmark at a level L > 1 has a bookmark at level L-1
\* somewhere before it.
C10_Hierarchy ==
    /\ total_toc # <<>> => total_toc[1].lvl = 1
    /\ \A i \in DOMAIN total_toc :
          total_toc[i].lvl > 1 =>
              \E j \in 1..(i - 1) : total_toc[j].lvl = total_toc[i].lvl - 1

\* the bookmarks of t that are not fillers, without their pages
Retained(t) ==
    LET real == SelectSeq(t, LAMBDA l : l.title # FillerTitle)
    IN [i \in DOMAIN real |-> [lvl |-> real[i].lvl, title |-> real[i].title,
                                kind |-> real[i].kind]]

\* C11: when the pages of a source run backward, the bookmarks retained from
\* it (fillers aside) are those retained for the forward selection over the
\* same two bounds, in exactly the reverse order.
C11_BackwardOutline ==
    (pc = "toc_done" /\ first_pg > last_pg) =>
        Retained(total_toc) =
            Reverse(Retained(TocLoop([out |-> <<>>, lvl |-> 1], toc,
                                     Resolved(last_pg, first_pg), current_pg).out))

C11_Witness ==
    /\ pc = "toc_done"
    /\ first_pg > last_pg
    /\ Len(toc) = 3
    /\ TitlesOf(total_toc) = <<"<>", "c", "a">>

\* the rows reported as encrypted, and the rows that have pages in the output
Reported == {printed[i] : i \in DOMAIN printed}
Contributing == {output_file[p].src : p \in DOMAIN output_file}

\* C12: an encrypted source adds no page and no bookmark and leaves
\* current_pg alone, and the loop goes on with the next row: no output page
\* comes from a reported row, the pages stay in row order, and when
\* merge_pdfs returns every row that was not reported has its pages in the
\* output - for [A, B encrypted, C] the pages of A followed by those of C.
C12_EncryptedSkipped ==
    /\ [][(pc = "opened" /\ temp_file.needs_pass) =>
             /\ output_file' = output_file
             /\ total_toc' = total_toc
             /\ current_pg' = current_pg
             /\ pc' = "loop"]_vars
    /\ [](/\ Reported \cap Contributing = {}
          /\ \A p \in DOMAIN output_file : \A q \in DOMAIN output_file :
                p < q => output_file[p].src <= output_file[q].src
          /\ pc = "done" => Contributing = (1..idx) \ Reported)

C12_Witness ==
    /\ pc = "done"
    /\ idx = 3
    /\ printed = <<2>>
    /\ Len(output_file) = 3
    /\ output_file[1].src = 1
    /\ output_file[2].src = 3
    /\ output_file[3].page = 0

\* C13: a source that cannot be opened is skipped without aborting the
\* merge: when the next row is read, either its file opens or the loop goes
\* on with the rows after it.
C13_UnreadableSkipped ==
    [][(pc = "loop" /\ idx' = idx + 1) => pc' \in {"opened", "loop"}]_vars

\* C14 as stated: the rows skipped by merge_pdfs are handed to its caller
\* together with the document it returns.
C14_SkipsReturned ==
    pc = "done" => ReturnedSkips = printed

\* C14 amended: every row skipped as encrypted is reported exactly once, in
\* row order, by the message printed to stdout - at the head of the loop and
\* at return the reported rows are exactly the rows read that have no page
\* in the output, and a row is not reported before its skip; merge_pdfs
\* returns the document alone.
C14_PrintedOnce ==
    /\ \A i \in DOMAIN printed : \A j \in DOMAIN printed :
          i < j => printed[i] < printed[j]
    /\ pc \in {"loop", "done"} => Reported = (1..idx) \ Contributing
    /\ pc = "opened" => idx \notin Reported
    /\ pc = "done" => ReturnedSkips = <<>>

C14_Witness ==
    /\ pc = "done"
    /\ printed = <<1, 3>>
    /\ Len(output_file) = 2

\* C15 as stated: in finalize and preview mode alike current_pg grows by the
\* number of pages each source contributes, so at the head of the loop and
\* at return it is the number of pages in the output.
C15_OffsetIsPageCount ==
    pc \in {"loop", "done"} => current_pg = Len(output_file)

\* C15 amended: in finalize mode current_pg grows by len(pg_range), the
\* number of pages the source contributed, when the source is left, so it is
\* the number of output pages at the head of the loop and at return, and
\* that number less the pages of the current source while its bookmarks are
\* visited; in preview mode line 850 is never reached and current_pg stays 0.
C15_OffsetFinalizeOnly ==
    /\ (finalize /\ pc \in {"loop", "done"}) => current_pg = Len(output_file)
    /\ (finalize /\ pc = "links") =>
          /\ Len(pg_range) = Abs(WantedLast - WantedFirst) + 1
          /\ current_pg + Len(pg_range) = Len(output_file)
    /\ ~finalize => current_pg = 0

C15_Witness ==
    /\ finalize
    /\ pc = "loop"
    /\ idx = 2
    /\ printed = <<>>
    /\ current_pg = 3
    /\ Len(output_file) = 3

\* C16: current_pg never decreases during a merge.
C16_OffsetMonotonic ==
    [][current_pg' >= current_pg]_vars

C16_Witness ==
    /\ pc = "loop"
    /\ idx = 2
    /\ current_pg = 3
    /\ output_file[1].src = 1
    /\ output_file[2].src = 1
    /\ output_file[3].src = 2

\* C17: without finalize the bookmark loop is never entered, no bookmark is
\* read or collected and no outline is attached to the output; with
\* finalize nothing is attached while rows are processed, and at return the
\* outline of the output is the collected one - attached when total_toc has
\* bookmarks, absent when it has none.
C17_OutlineOnlyWhenFinalizing ==
    /\ ~finalize =>
          /\ pc # "links"
          /\ entries_read = 0
          /\ total_toc = <<>>
          /\ doc_toc = <<>>
    /\ pc \in {"loop", "opened", "inserted", "links"} => doc_toc = <<>>
    /\ (finalize /\ pc = "done") => doc_toc = total_toc

C17_Witness ==
    /\ finalize
    /\ pc = "done"
    /\ idx = 2
    /\ Len(doc_toc) = 3
    /\ doc_toc[1].title = "a"
    /\ doc_toc[3].title = "b"

\* C18: on_save never saves a document without pages: save is called only
\* on an output that has pages, and when no row contributed a page (every
\* file was skipped, or merge_pdfs raised before any page) on_save ends in
\* its error dialog without having called save.
C18_NoEmptySave ==
    /\ save_called => Len(output_file) > 0
    /\ pc = "saved" => (save_called /\ Len(output_file) > 0)
    /\ (pc \in {"saved", "save_error"} /\ output_file = <<>>) =>
          (pc = "save_error" /\ ~save_called)

C18_Witness ==
    /\ pc = "save_error"
    /\ ~save_called
    /\ printed = <<1, 2>>
    /\ output_file = <<>>

\* C19: merge_pdfs never returns a document without pages: whenever it
\* returns from a merge of at least one row, in finalize or preview mode,
\* the output has a page.
C19_NeverReturnsEmpty ==
    (pc = "done" /\ idx > 0) => Len(output_file) > 0

C21_FrameClosedAfterSave ==
    /\ pc = "saved" => ~frame_open
    /\ pc = "save_error" => frame_open

\* the bookmarks of the current file in the order they are visited
Visited == IF first_pg > last_pg THEN Reverse(toc) ELSE toc

IsNamed(l) == l.kind = LINK_NAMED
IsOther(l) == l.kind # LINK_NAMED /\ l.kind # LINK_GOTO

\* a bookmark the claims call retained: not named, and when goto, with its
\* target among the pages taken from the file
Kept(l) ==
    /\ ~IsNamed(l)
    /\ l.kind = LINK_GOTO =>
          (l.page - 1 >= Min(first_pg, last_pg) /\ l.page - 1 <= Max(first_pg, last_pg))

\* C22: in finalize mode a named bookmark never appears in the collected
\* outline, gives rise to no filler and leaves last_lvl as it was: the
\* outline collected from a file and the final last_lvl are those of the
\* same file with its named bookmarks taken out.
C22_NamedDropped ==
    pc = "toc_done" =>
        /\ \A i \in DOMAIN total_toc : ~IsNamed(total_toc[i])
        /\ LET st == TocLoop([out |-> <<>>, lvl |-> 1],
                              SelectSeq(Visited, LAMBDA l : ~IsNamed(l)),
                              Resolved(first_pg, last_pg), current_pg)
           IN total_toc = st.out /\ last_lvl = st.lvl

C22_Witness ==
    /\ pc = "toc_done"
    /\ Len(toc) = 3
    /\ IsNamed(toc[2])
    /\ toc[2].lvl = 2
    /\ toc[3].lvl = 3
    /\ TitlesOf(total_toc) = <<"a", "<>", "c">>
    /\ last_lvl = 3

\* C23: in finalize mode every bookmark that is neither goto nor named is
\* appended as it is (level, title, page field and kind untouched, whatever
\* the page range and the pages of earlier files), and it keeps its place
\* among the retained bookmarks of its file.
C23_OtherUnchanged ==
    pc = "toc_done" =>
        /\ SelectSeq(total_toc, IsOther) = SelectSeq(Visited, IsOther)
        /\ Retained(total_toc) =
              LET kept == SelectSeq(Visited, Kept)
              IN [i \in DOMAIN kept |-> [lvl |-> kept[i].lvl, title |-> kept[i].title,
                                          kind |-> kept[i].kind]]

C23_Witness ==
    /\ pc = "toc_done"
    /\ first_pg > last_pg
    /\ current_pg = 2
    /\ Len(total_toc) = 3
    /\ total_toc[2] = [lvl |-> 2, title |-> "b", page |-> NoPage, kind |-> LINK_URI]
    /\ total_toc[1].title = "c"
    /\ total_toc[3].title = "a"

\* C24: the level repair covers every retained bookmark, goto or not: once
\* the bookmarks of a file are merged, last_lvl is the level of the bookmark
\* appended last.
C24_RepairForAllKinds ==
    (pc = "toc_done" /\ total_toc # <<>>) =>
        last_lvl = total_toc[Len(total_toc)].lvl

\* C26: in finalize mode every goto bookmark and every filler in total_toc
\* has a page in 1..(pages now in the output), and when a goto bookmark is
\* rewritten it and its fillers get the number of the output page that
\* holds the page of the current file the bookmark pointed to.
C26_TargetsInOutput ==
    /\ [](\A i \in DOMAIN total_toc :
            total_toc[i].kind = LINK_GOTO =>
                total_toc[i].page \in 1..Len(output_file))
    /\ [][(AtGoto /\ TargetInside) =>
             \A i \in (Len(total_toc) + 1)..Len(total_toc') :
                 /\ total_toc'[i].page \in 1..Len(output_file)
                 /\ output_file[total_toc'[i].page].src = idx
                 /\ output_file[total_toc'[i].page].page = Head(toc).page - 1]_vars

C26_Witness ==
    /\ pc = "links"
    /\ idx = 2
    /\ printed = <<>>
    /\ first_pg > last_pg
    /\ Len(output_file) = 3
    /\ TitlesOf(total_toc) = <<"a", "<>", "c", "a">>
    /\ total_toc[1].page = 1
    /\ total_toc[2].page = 2
    /\ total_toc[3].page = 2
    /\ total_toc[4].page = 3

\* C25: a merge over finitely many rows with finite outlines ends: each
\* pass of the filler loop raises last_lvl by one and keeps it below the
\* level of the bookmark in hand, the loop is left, and merge_pdfs returns
\* or raises.
C25_Terminates ==
    /\ [][(pc = "while" /\ pc' = "while") =>
             (last_lvl' = last_lvl + 1 /\ last_lvl' < Head(toc).lvl)]_vars
    /\ (pc = "while") ~> (pc = "links")
    /\ <>(pc \in {"done", "raised"})

C25_Witness ==
    /\ pc = "done"
    /\ finalize
    /\ idx = 2
    /\ TitlesOf(total_toc) = <<"<>", "c", "a">>
    /\ Levels(total_toc) = <<2, 3, 1>>

\* C27: in the viewer of a document with at least one page, whatever Back,
\* Next, wheel and page-field inputs came before, the current page is in
\* 1..total; a request for a page above the total shows page 1, one below 1
\* shows the last page, any other request shows the page asked for; and
\* the page field reads as the number of the page shown.
C27_ViewerPage ==
    pc = "viewer" =>
        /\ viewer.current_pg \in 1..viewer.total_pages
        /\ viewer.page > viewer.total_pages => viewer.current_pg = 1
        /\ viewer.page < 1 => viewer.current_pg = viewer.total_pages
        /\ viewer.page \in 1..viewer.total_pages => viewer.current_pg = viewer.page
        /\ IsInt(viewer.pg_input)
        /\ IntOf(viewer.pg_input) = viewer.current_pg

C27_Witness ==
    /\ pc = "viewer"
    /\ viewer.total_pages = 3
    /\ viewer.page = 0 - 1
    /\ viewer.current_pg = 3
    /\ viewer.pg_input = <<"3">>

\* the rows of g as a bag: how often each row occurs
Occurrences(g, r) == Cardinality({i \in DOMAIN g : g[i] = r})

\* C28: a move-up or move-down of any selection, in whatever order the
\* selected rows are reported, leaves a permutation of the rows: the same
\* number of rows, and every row of five cells as often after as before.
C28_MovePermutes ==
    [][/\ Len(grid') = Len(grid)
       /\ \A i \in DOMAIN grid : Occurrences(grid', grid[i]) = Occurrences(grid, grid[i])]_vars

====
